---- MODULE Spec2Model ----
(***************************************************************************)
(* RAGify: session-scoped retrieval-augmented question answering.          *)
(*                                                                         *)
(* The model follows the request handlers of the Next.js API routes        *)
(*   POST /api/chat        (the current handler, src/unnamed/part_002)     *)
(*   POST /api/indexing    (src/src/app/api/indexing/route.ts)             *)
(*   DELETE /api/indexing  (src/src/app/api/indexing/route.ts)             *)
(* and the Redis helpers of lib/redis (src/unnamed/part_012).  Every       *)
(* handler is an independent task; one action is one stretch of a handler  *)
(* that ends at a call on a shared store (Redis, Qdrant), so that the      *)
(* interleavings of the model are the interleavings of the store calls.    *)
(***************************************************************************)
EXTENDS Integers, Sequences, FiniteSets, TLC

VARIABLES
    env,          \* process.env: the set of configuration variables that are set
    redisTokens,  \* Redis key session:<id>:tokens, per session id
    redisFiles,   \* Redis list session:<id>:files, per session id
    index,        \* the points of the Qdrant collection "PDF_Indexing"
    usedIds,      \* the point ids handed out so far (an id is never handed out twice)
    tasks,        \* the request handlers: one record per request
    quota0        \* history: the stored counter of a session before any request

vars == <<env, redisTokens, redisFiles, index, usedIds, tasks, quota0>>

-----------------------------------------------------------------------------
(* Bounds of the model *)

MaxTasks == 3      \* requests in one behaviour
MaxPoints == 3     \* point ids that can be handed out in one behaviour
MaxChunks == 3     \* chunks the splitter cuts from one document
MaxQuota0 == 3     \* largest counter a session starts a behaviour with
MaxChats == 1      \* question requests among the requests of Spec
MaxInFlight == 2   \* handlers running at the same time
MaxQuotaTasks == 2 \* question requests in one behaviour of SpecQuota
MaxMarks == 2      \* marks considered together in one error message
MaxTokens == 2     \* chunks of one streamed answer
MaxIngests == 2    \* uploads in one behaviour of SpecIngest and SpecSession
MaxRanked == 6     \* chunks of the sessions in a collection of SpecRetrieve
MaxForeign == 16   \* chunks of another tenant that rank first in SpecShared
MaxOwn == 2        \* chunks that rank after them in SpecShared
MaxShown == 2      \* largest token count the page shows before a message is sent
MaxPages == 2      \* pages of an uploaded PDF

(* Program constants *)

DEFAULT_TOKENS == 10
SESSION_TTL == 86400
SearchLimit == 15
TopK == 4
\* The page size of the scroll over the collection. The handlers ask for 1000
\* points and read one page; the model keeps "one page, never the next" and
\* scales the page down to the size of the collections it explores.
ScrollLimit == 2

Tasks == 1..MaxTasks
PointIds == 1..MaxPoints

\* The values of the x-session-id header; "" is a request without the header.
Headers == {"", "s1"}
DefaultSession == "default-session"
Sessions == {DefaultSession, "s1"}

\* Display names of sources: raw text is always "User Text".
UserText == "User Text"
Names == {UserText, "a.txt"}

EnvVars == {"QDRANT_URL", "QDRANT_KEY", "GOOGLE_GENERATIVE_AI_API_KEY"}
\* The deployments considered: fully configured, no index store, no model key.
Envs == {EnvVars, EnvVars \ {"QDRANT_URL"}, EnvVars \ {"GOOGLE_GENERATIVE_AI_API_KEY"}}

\* An optional value is a sequence of length 0 or 1.
None == <<>>
Some(v) == <<v>>

-----------------------------------------------------------------------------
(* Redis: a key is absent, or holds a value and possibly a time-to-live *)

NoKey == [exists |-> FALSE, value |-> 0, ttl |-> 0]

\* An absent list key
NoList == [list |-> <<>>, ttl |-> 0]

\* GET: null for an absent key, else the stored (string-encoded) integer
RedisGet(key) == IF key.exists THEN Some(key.value) ELSE None

\* SET key v EX seconds
RedisSetEx(v, seconds) == [exists |-> TRUE, value |-> v, ttl |-> seconds]

\* DECR: an absent key counts as 0 and is created without a time-to-live
RedisDecrBy2(key) ==
    IF key.exists THEN [key EXCEPT !.value = @ - 2]
    ELSE [exists |-> TRUE, value |-> 0 - 2, ttl |-> 0]

RedisDecr(key) ==
    IF key.exists THEN [key EXCEPT !.value = @ - 1]
    ELSE [exists |-> TRUE, value |-> 0 - 1, ttl |-> 0]

\* EXPIRE: sets the time-to-live of an existing key, no effect on an absent one
RedisExpire(key, seconds) ==
    IF key.exists THEN [key EXCEPT !.ttl = seconds] ELSE key

\* The time-to-live of a key runs out: the key is gone. A key without a
\* time-to-live stays.
CounterExpires(s) ==
    /\ redisTokens[s].exists /\ redisTokens[s].ttl > 0
    /\ redisTokens' = [redisTokens EXCEPT ![s] = NoKey]
    /\ UNCHANGED <<env, redisFiles, index, usedIds, tasks, quota0>>

ListExpires(s) ==
    /\ redisFiles[s].list # <<>> /\ redisFiles[s].ttl > 0
    /\ redisFiles' = [redisFiles EXCEPT ![s] = NoList]
    /\ UNCHANGED <<env, redisTokens, index, usedIds, tasks, quota0>>

-----------------------------------------------------------------------------
(* Request scoping *)

\* req.headers.get("x-session-id") || "default-session"
SessionIdOf(header) == IF header = "" THEN DefaultSession ELSE header

Idle == [kind |-> "none", pc |-> "idle"]

\* Requests are interchangeable: they take the task slots in order. At most
\* MaxInFlight handlers run at a time.
CanStart(t) ==
    /\ tasks[t].pc = "idle"
    /\ \A u \in Tasks : u < t => tasks[u].pc # "idle"
    /\ Cardinality({u \in Tasks : tasks[u].pc \notin {"idle", "done"}}) < MaxInFlight

-----------------------------------------------------------------------------
(* POST /api/chat *)

\* !question || !sources || sources.length === 0
MissingInputNever(question, nsources) == FALSE

MissingInput(question, nsources) == question = "" \/ nsources = 0

\* tokens <= 0
LimitReachedOffByOne(tokens) == tokens < 0

LimitReached(tokens) == tokens <= 0

\* metadata.tenant_id || payload.tenant_id
TenantOf(point) ==
    IF point.metadata.tenant_id # "" THEN point.metadata.tenant_id ELSE point.tenant_id

\* metadata.source || payload.source
SourceOf(point) ==
    IF point.metadata.source # "" THEN point.metadata.source ELSE point.source

\* the predicate of searchResult.filter(...)
KeepPointAnyTenant(point, sessionId, targetSource) ==
    ~(targetSource # "" /\ SourceOf(point) # targetSource)

KeepPointAnySource(point, sessionId, targetSource) ==
    ~(TenantOf(point) # sessionId)

KeepPoint(point, sessionId, targetSource) ==
    /\ ~(TenantOf(point) # sessionId)
    /\ ~(targetSource # "" /\ SourceOf(point) # targetSource)

\* Array.prototype.slice(0, n)
SliceFromEnd(seq, n) == SubSeq(seq, IF Len(seq) < n THEN 1 ELSE Len(seq) - n + 1, Len(seq))

Slice(seq, n) == SubSeq(seq, 1, IF Len(seq) < n THEN Len(seq) ELSE n)

\* searchResult.filter(...).slice(0, 4)
SessionResults(searchResult, sessionId, targetSource) ==
    Slice(SelectSeq(searchResult, LAMBDA p : KeepPoint(p, sessionId, targetSource)), TopK)

\* What qdrantClient.search may return: at most `limit` distinct points of the
\* collection, in an order the application does not control.
SearchResults(limit) ==
    UNION { { sq \in [1..n -> index] : \A i, j \in 1..n : i # j => sq[i] # sq[j] }
            : n \in 0..(IF Cardinality(index) < limit THEN Cardinality(index) ELSE limit) }

\* What the catch block looks at in a caught error: error.status (0 when the
\* error has none), the marks error.message contains, and the marks the
\* lower-cased JSON.stringify(error) contains.
Statuses == {0, 401, 403, 404, 429, 500}

MessageMarks ==
    {"quota", "QUOTA_EXCEEDED", "RESOURCE_EXHAUSTED",
     "rate limit", "RATE_LIMIT_EXCEEDED", "429",
     "API key", "INVALID_ARGUMENT", "authentication",
     "model", "not found"}

StringMarks == {"quota", "resource_exhausted", "rate"}

UpTo(marks, n) == { m \in SUBSET marks : Cardinality(m) <= n }

Errors == [status : Statuses, message : UpTo(MessageMarks, MaxMarks),
           string : UpTo(StringMarks, MaxMarks)]

\* The errors the embedding, search and model clients throw in the other
\* specifications: one that mentions the quota and one without any mark.
UpstreamErrors ==
    {[status |-> 429, message |-> {"quota"}, string |-> {}],
     [status |-> 0, message |-> {}, string |-> {}]}

\* The four tests of the catch block
IsQuota(err) ==
    \/ err.message \cap {"quota", "QUOTA_EXCEEDED", "RESOURCE_EXHAUSTED"} # {}
    \/ err.string \cap {"quota", "resource_exhausted"} # {}

IsRateLimit(err) ==
    \/ err.message \cap {"rate limit", "RATE_LIMIT_EXCEEDED", "429"} # {}
    \/ "rate" \in err.string
    \/ err.status = 429

IsAuth(err) ==
    \/ err.message \cap {"API key", "INVALID_ARGUMENT", "authentication"} # {}
    \/ err.status \in {401, 403}

IsModel(err) ==
    \/ err.message \cap {"model", "not found"} # {}
    \/ err.status = 404

ErrorTypeRateFirst(err) ==
    IF IsRateLimit(err) THEN "rate_limited"
    ELSE IF IsQuota(err) THEN "quota_exceeded"
    ELSE IF IsAuth(err) THEN "auth_error"
    ELSE IF IsModel(err) THEN "model_error"
    ELSE "generic_error"

\* errorType of the response: the tests in the order of the catch block
ErrorType(err) ==
    IF IsQuota(err) THEN "quota_exceeded"
    ELSE IF IsRateLimit(err) THEN "rate_limited"
    ELSE IF IsAuth(err) THEN "auth_error"
    ELSE IF IsModel(err) THEN "model_error"
    ELSE "generic_error"

\* status of the response
ErrorStatus(err) ==
    IF IsQuota(err) THEN 429
    ELSE IF IsRateLimit(err) THEN 429
    ELSE IF IsAuth(err) THEN 500
    ELSE IF IsModel(err) THEN 503
    ELSE 500

ChatTask(sessionId, question, nsources, targetSource) ==
    [kind |-> "chat", pc |-> "get", sessionId |-> sessionId,
     question |-> question, nsources |-> nsources, targetSource |-> targetSource,
     tokens |-> None, remainingTokens |-> None, sessionResults |-> <<>>,
     hasContext |-> FALSE,
     error |-> None,  \* history: the error the catch block received
     header |-> "",   \* history: the x-session-id header of the request
     status |-> 0, body |-> "", calls |-> {}]

Respond(task, status, body) == [task EXCEPT !.pc = "done", !.status = status, !.body = body]

Called(task, call) == [task EXCEPT !.calls = @ \cup {call}]

\* The request bodies considered: a question with sources attached, with or
\* without a target source, and the bodies that lack the question or the sources.
ChatBodies(targets) ==
    [question : {"q"}, nsources : {1}, targetSource : targets]
        \cup [question : {"q"}, nsources : {0}, targetSource : {""}]
        \cup [question : {""}, nsources : {1}, targetSource : {""}]

\* req.json(), the session id and the input validation
ChatReceive(t, targets, maxChats) ==
    /\ CanStart(t)
    /\ Cardinality({u \in Tasks : tasks[u].kind = "chat"}) < maxChats
    /\ \E header \in Headers, b \in ChatBodies(targets) :
          LET task == [ChatTask(SessionIdOf(header), b.question, b.nsources, b.targetSource)
                           EXCEPT !.header = header]
          IN tasks' = [tasks EXCEPT ![t] =
                 IF MissingInput(b.question, b.nsources)
                 THEN Respond(task, 400, "Missing question or sources")
                 ELSE task]
    /\ UNCHANGED <<env, redisTokens, redisFiles, index, usedIds, quota0>>

\* What follows `const tokens = ...` in the handler: the quota gate
ChatGateOpen(task, tokens) == [task EXCEPT !.tokens = Some(tokens), !.pc = "decr"]

ChatGate(task, tokens) ==
    IF LimitReached(tokens)
    THEN Respond([task EXCEPT !.tokens = Some(tokens)], 429, "tokens: 0")
    ELSE [task EXCEPT !.tokens = Some(tokens), !.pc = "decr"]

\* getSessionTokens: redis.get
ChatGetTokens(t) ==
    /\ tasks[t].kind = "chat" /\ tasks[t].pc = "get"
    /\ LET task == Called(tasks[t], "redis.get")
           got == RedisGet(redisTokens[task.sessionId])
       IN tasks' = [tasks EXCEPT ![t] =
              IF got = None THEN [task EXCEPT !.pc = "set"] ELSE ChatGate(task, got[1])]
    /\ UNCHANGED <<env, redisTokens, redisFiles, index, usedIds, quota0>>

\* getSessionTokens on a null reply: redis.set(key, DEFAULT_TOKENS, 'EX', SESSION_TTL)
ChatInitTokens(t) ==
    /\ tasks[t].kind = "chat" /\ tasks[t].pc = "set"
    /\ redisTokens' = [redisTokens EXCEPT ![tasks[t].sessionId] =
                           RedisSetEx(DEFAULT_TOKENS, SESSION_TTL)]
    /\ tasks' = [tasks EXCEPT ![t] = ChatGate(Called(tasks[t], "redis.set"), DEFAULT_TOKENS)]
    /\ UNCHANGED <<env, redisFiles, index, usedIds, quota0>>

\* decrementSessionTokens: redis.decr
ChatDecrement(t) ==
    /\ tasks[t].kind = "chat" /\ tasks[t].pc = "decr"
    /\ LET key == RedisDecr(redisTokens[tasks[t].sessionId])
       IN /\ redisTokens' = [redisTokens EXCEPT ![tasks[t].sessionId] = key]
          /\ tasks' = [tasks EXCEPT ![t] =
                 [Called(@, "redis.decr") EXCEPT !.remainingTokens = Some(key.value),
                                                 !.pc = "expire"]]
    /\ UNCHANGED <<env, redisFiles, index, usedIds, quota0>>

\* The configuration checks of the chat handler, which follow the decrement
ChatEnvCheck(task) ==
    IF ~({"QDRANT_URL", "QDRANT_KEY"} \subseteq env)
    THEN Respond([task EXCEPT !.targetSource = ""], 500, "Qdrant environment variables not set")
    ELSE IF "GOOGLE_GENERATIVE_AI_API_KEY" \notin env
    THEN Respond([task EXCEPT !.targetSource = ""], 500, "Google API key not set")
    ELSE [task EXCEPT !.pc = "retrieve"]

\* decrementSessionTokens: redis.expire, then the configuration checks
ChatExpire(t) ==
    /\ tasks[t].kind = "chat" /\ tasks[t].pc = "expire"
    /\ redisTokens' = [redisTokens EXCEPT ![tasks[t].sessionId] = RedisExpire(@, SESSION_TTL)]
    /\ tasks' = [tasks EXCEPT ![t] = ChatEnvCheck(Called(@, "redis.expire"))]
    /\ UNCHANGED <<env, redisFiles, index, usedIds, quota0>>

\* The catch block of the chat handler
ChatCatch(task, err) ==
    Respond([task EXCEPT !.targetSource = "", !.error = Some(err)],
            ErrorStatus(err), ErrorType(err))

\* embedQuery throws one of the given errors
ChatEmbedFailsWith(t, errors) ==
    /\ tasks[t].kind = "chat" /\ tasks[t].pc = "retrieve"
    /\ \E err \in errors :
          tasks' = [tasks EXCEPT ![t] = ChatCatch(Called(@, "embedQuery"), err)]
    /\ UNCHANGED <<env, redisTokens, redisFiles, index, usedIds, quota0>>

ChatEmbedFails(t) == ChatEmbedFailsWith(t, UpstreamErrors)

\* qdrantClient.search throws
ChatSearchFails(t) ==
    /\ tasks[t].kind = "chat" /\ tasks[t].pc = "retrieve"
    /\ \E err \in UpstreamErrors :
          tasks' = [tasks EXCEPT ![t] =
                       ChatCatch(Called(Called(@, "embedQuery"), "search"), err)]
    /\ UNCHANGED <<env, redisTokens, redisFiles, index, usedIds, quota0>>

\* hasContext = context.trim().length > 0: every retrieved chunk contributes
\* its "Context #i (Page ...)" heading, so the context is blank only when no
\* chunk was retrieved
HasContext(sessionResults) == Len(sessionResults) > 0

\* The collection in the order of the similarity to the question: the model
\* numbers the points of a ranked collection by their rank.
Ranked(points) ==
    [i \in 1..Cardinality(points) |->
        CHOOSE p \in points : Cardinality({q \in points : q.id < p.id}) = i - 1]

\* qdrantClient.search on a ranked collection: the `limit` best matches, best first
RankedSearch(limit) == { Slice(Ranked(index), limit) }

\* embedQuery, qdrantClient.search, the filter, streamText and the streamed response
ChatRetrieveFrom(t, results) ==
    /\ tasks[t].kind = "chat" /\ tasks[t].pc = "retrieve"
    /\ \E searchResult \in results :
          LET task == Called(Called(Called(tasks[t], "embedQuery"), "search"), "streamText")
          IN tasks' = [tasks EXCEPT ![t] =
                 [task EXCEPT !.sessionResults =
                                  SessionResults(searchResult, task.sessionId, task.targetSource),
                              !.hasContext =
                                  HasContext(SessionResults(searchResult, task.sessionId,
                                                            task.targetSource)),
                              !.status = 200,
                              !.body = "x-remaining-tokens",
                              !.pc = "streaming"]]
    /\ UNCHANGED <<env, redisTokens, redisFiles, index, usedIds, quota0>>

ChatRetrieve(t) == ChatRetrieveFrom(t, SearchResults(SearchLimit))

\* The stream ends: the model is done, the caller aborted, or the model failed
ChatStreamEnds(t) ==
    /\ tasks[t].kind = "chat" /\ tasks[t].pc = "streaming"
    /\ tasks' = [tasks EXCEPT ![t] =
                     [@ EXCEPT !.pc = "done", !.targetSource = "", !.sessionResults = <<>>,
                               !.hasContext = FALSE]]
    /\ UNCHANGED <<env, redisTokens, redisFiles, index, usedIds, quota0>>

ChatStep(t) ==
    \/ ChatGetTokens(t)
    \/ ChatInitTokens(t)
    \/ ChatDecrement(t)
    \/ ChatExpire(t)
    \/ ChatEmbedFails(t)
    \/ ChatSearchFails(t)
    \/ ChatRetrieve(t)
    \/ ChatStreamEnds(t)

-----------------------------------------------------------------------------
(* POST /api/indexing *)

\* The multipart bodies considered: each of file (by name), url and text is
\* present or absent. "not a url" is a string that new URL() rejects.
FileNames == {"a.txt", "a.exe", "a.pdf"}
Urls == {"http://a", "not a url"}
AllIngestBodies == [file : {""} \cup FileNames, url : {""} \cup Urls, text : {"", "t"}]

\* The bodies without a url
IngestBodies(files) == [file : {""} \cup files, url : {""}, text : {"", "t"}]

\* file.name.toLowerCase().split(".").pop()
Extension(fileName) ==
    CASE fileName = "a.txt" -> "txt"
      [] fileName = "a.exe" -> "exe"
      [] fileName = "a.pdf" -> "pdf"
      [] OTHER -> ""

\* A document the loaders hand to the splitter, with the metadata the handler
\* sets: page and totalPages are 0 where the handler sets none. blank tells
\* that pageContent holds no text.
UnitDoc(source, sessionId, page, totalPages, blank) ==
    [source |-> source, tenant_id |-> sessionId, page |-> page, totalPages |-> totalPages,
     blank |-> blank]

Doc(source, sessionId) == UnitDoc(source, sessionId, 0, 0, FALSE)

\* pdfDocs.forEach((doc, index) => ...): the page number of the document at
\* the 0-based index
PageNumberZeroBased(i) == i

PageNumber(i) == i + 1

\* The documents of a PDF of n pages, blanks[p] telling the pages without text
PdfDocs(file, sessionId, n, blanks) ==
    [i \in 1..n |-> UnitDoc(file, sessionId, PageNumber(i - 1), n, blanks[i])]

Loaded(docs) == [ok |-> TRUE, status |-> 200, error |-> "", docs |-> docs]

Thrown(status, error) == [ok |-> FALSE, status |-> status, error |-> error, docs |-> <<>>]

\* handleFileUpload: what the file can make of it. The documents it pushes,
\* or the error it throws; the pages of a PDF and their text are the file's.
FileLoads(file, sessionId) ==
    IF file = "" THEN {Loaded(<<>>)}
    ELSE IF Extension(file) = "pdf"
    THEN UNION { { Loaded(PdfDocs(file, sessionId, n, blanks)) : blanks \in [1..n -> BOOLEAN] }
                 : n \in 1..MaxPages }
             \cup {Thrown(500, "error.message")}
    ELSE IF Extension(file) \in {"md", "txt", "markdown"}
    THEN {Loaded(<<Doc(file, sessionId)>>), Thrown(500, "Empty text file")}
    ELSE {Thrown(500, "Unsupported file type")}

\* The website: new URL(websiteUrl), then CheerioWebBaseLoader.load(), whose
\* document may hold no text and which may throw
WebLoads(url, sessionId) ==
    IF url = "" THEN {Loaded(<<>>)}
    ELSE IF url = "not a url" THEN {Thrown(400, "Invalid URL format")}
    ELSE { Loaded(<<UnitDoc(url, sessionId, 0, 0, blank)>>) : blank \in BOOLEAN }
             \cup {Thrown(500, "error.message")}

\* the raw text document
TextDocs(text, sessionId) ==
    IF text = "" THEN <<>> ELSE <<Doc(UserText, sessionId)>>

\* sourceName of the success response and of the FileMetadata
SourceName(file, url, text) ==
    IF file # "" THEN file ELSE IF url # "" THEN url ELSE UserText

SourceType(file, url, text) ==
    IF file # "" THEN "file" ELSE IF url # "" THEN "url" ELSE "text"

\* The FileMetadata stored in the session's list
FileMetadata(file, url, text) ==
    [name |-> SourceName(file, url, text), sourceType |-> SourceType(file, url, text)]

\* The payload QdrantVectorStore stores for a chunk: the chunk's metadata is
\* nested under payload.metadata, and the payload has no tenant_id or source
\* of its own. ingestedBy is history: the session of the request that
\* upserted the point; no handler reads it.
PointMetadata(doc) ==
    [tenant_id |-> doc.tenant_id, source |-> doc.source,
     page |-> doc.page, totalPages |-> doc.totalPages]

PointIdFromContent(id, doc, sessionId) ==
    [id |-> 1, tenant_id |-> "", source |-> "",
     metadata |-> PointMetadata(doc),
     ingestedBy |-> sessionId]

Point(id, doc, sessionId) ==
    [id |-> id, tenant_id |-> "", source |-> "",
     metadata |-> PointMetadata(doc),
     ingestedBy |-> sessionId]

IngestTask(sessionId, file, url, text) ==
    [kind |-> "ingest", pc |-> "upsert", sessionId |-> sessionId,
     file |-> file, url |-> url, text |-> text, docs |-> <<>>,
     header |-> "",   \* history: the x-session-id header of the request
     upserted |-> {}, \* history: the ids of the points the request upserted
     status |-> 0, body |-> "", calls |-> {}]

\* The configuration check of the indexing handler
IngestEnvOk == EnvVars \subseteq env

\* The handler up to the call of QdrantVectorStore.fromDocuments
IngestReceiveFrom(t, bodies) ==
    /\ CanStart(t)
    /\ \E header \in Headers, b \in bodies :
          LET sessionId == SessionIdOf(header)
              task == [IngestTask(sessionId, b.file, b.url, b.text) EXCEPT !.header = header]
          IN \E fromFile \in FileLoads(b.file, sessionId), fromWeb \in WebLoads(b.url, sessionId) :
                LET docs == fromFile.docs \o fromWeb.docs \o TextDocs(b.text, sessionId)
                IN tasks' = [tasks EXCEPT ![t] =
                       IF ~IngestEnvOk
                       THEN Respond(task, 500, "Missing environment variables")
                       ELSE IF b.file = "" /\ b.url = "" /\ b.text = ""
                       THEN Respond(task, 400, "Please upload a file, provide a URL, or enter text.")
                       ELSE IF ~fromFile.ok
                       THEN Respond(task, fromFile.status, fromFile.error)
                       ELSE IF ~fromWeb.ok
                       THEN Respond(task, fromWeb.status, fromWeb.error)
                       ELSE IF Len(docs) = 0
                       THEN Respond(task, 400, "No valid content found to index.")
                       ELSE [task EXCEPT !.docs = docs]]
    /\ UNCHANGED <<env, redisTokens, redisFiles, index, usedIds, quota0>>

IngestReceive(t, files) == IngestReceiveFrom(t, IngestBodies(files))

\* The chunks the splitter cuts: counts[i] chunks of document i, each with the
\* metadata of its document, in the order of the documents.
ChunksOf(docs, counts) ==
    LET upTo[i \in 0..Len(docs)] ==
            IF i = 0 THEN <<>> ELSE upTo[i - 1] \o [k \in 1..counts[i] |-> docs[i]]
    IN upTo[Len(docs)]

\* A document with text yields at least one chunk, one without text none;
\* the model cuts at most MaxChunks from one document.
Splits(docs) ==
    { ChunksOf(docs, counts) :
        counts \in { c \in [1..Len(docs) -> 0..MaxChunks] :
                        \A i \in 1..Len(docs) : (c[i] = 0) <=> docs[i].blank } }

\* The lowest point ids not handed out yet
FreshIds(n) == { i \in PointIds : /\ i \notin usedIds
                                  /\ Cardinality({j \in PointIds \ usedIds : j < i}) < n }

FreshId(k) == CHOOSE i \in PointIds \ usedIds : Cardinality({j \in PointIds \ usedIds : j < i}) = k - 1

\* splitDocuments and QdrantVectorStore.fromDocuments: embed and upsert every chunk
IngestUpsert(t) ==
    /\ tasks[t].kind = "ingest" /\ tasks[t].pc = "upsert"
    /\ \E chunks \in Splits(tasks[t].docs) :
          /\ Len(chunks) <= Cardinality(PointIds \ usedIds)
          /\ index' = index \cup { Point(FreshId(k), chunks[k], tasks[t].sessionId) : k \in 1..Len(chunks) }
          /\ usedIds' = usedIds \cup FreshIds(Len(chunks))
    /\ tasks' = [tasks EXCEPT ![t] = [Called(Called(@, "embedDocuments"), "upsert")
                                         EXCEPT !.pc = "rpush",
                                                !.upserted = usedIds' \ usedIds]]
    /\ UNCHANGED <<env, redisTokens, redisFiles, quota0>>

IngestUpsertFailsRecorded(t) ==
    /\ tasks[t].kind = "ingest" /\ tasks[t].pc = "upsert"
    /\ redisFiles' = [redisFiles EXCEPT ![tasks[t].sessionId].list =
                          Append(@, [name |-> tasks[t].file, sourceType |-> "file"])]
    /\ tasks' = [tasks EXCEPT ![t] =
                     [@ EXCEPT !.pc = "done", !.status = 500, !.body = "error.message",
                               !.calls = @ \cup {"embedDocuments"}]]
    /\ UNCHANGED <<env, redisTokens, index, usedIds, quota0>>

\* The embedding or the upsert throws: the catch block answers 500
IngestUpsertFails(t) ==
    /\ tasks[t].kind = "ingest" /\ tasks[t].pc = "upsert"
    /\ tasks' = [tasks EXCEPT ![t] = Respond(Called(@, "embedDocuments"), 500, "error.message")]
    /\ UNCHANGED <<env, redisTokens, redisFiles, index, usedIds, quota0>>

\* RPUSH: appends, creating the list without a time-to-live when it is absent
RedisRpush(key, item) == [key EXCEPT !.list = Append(@, item)]

\* addSessionFile: redis.rpush
IngestRpush(t) ==
    /\ tasks[t].kind = "ingest" /\ tasks[t].pc = "rpush"
    /\ redisFiles' = [redisFiles EXCEPT ![tasks[t].sessionId] =
                          RedisRpush(@, FileMetadata(tasks[t].file, tasks[t].url, tasks[t].text))]
    /\ tasks' = [tasks EXCEPT ![t] = [Called(@, "redis.rpush") EXCEPT !.pc = "expire"]]
    /\ UNCHANGED <<env, redisTokens, index, usedIds, quota0>>

\* EXPIRE on a list: an empty list is an absent key
RedisExpireList(key, seconds) ==
    IF key.list # <<>> THEN [key EXCEPT !.ttl = seconds] ELSE key

\* addSessionFile: redis.expire, then the success response
IngestExpire(t) ==
    /\ tasks[t].kind = "ingest" /\ tasks[t].pc = "expire"
    /\ redisFiles' = [redisFiles EXCEPT ![tasks[t].sessionId] = RedisExpireList(@, SESSION_TTL)]
    /\ tasks' = [tasks EXCEPT ![t] = Respond(Called(@, "redis.expire"), 200, "success")]
    /\ UNCHANGED <<env, redisTokens, index, usedIds, quota0>>

IngestStep(t) ==
    \/ IngestUpsert(t)
    \/ IngestUpsertFails(t)
    \/ IngestRpush(t)
    \/ IngestExpire(t)

-----------------------------------------------------------------------------
(* DELETE /api/indexing?fileName=... *)

DeleteTask(sessionId, fileName) ==
    [kind |-> "delete", pc |-> "scroll", sessionId |-> sessionId, fileName |-> fileName,
     toDelete |-> {}, fileJson |-> None, deleted |-> 0,
     collection |-> {},   \* history: the collection when it was scrolled
     header |-> "",       \* history: the x-session-id header of the request
     status |-> 0, body |-> "", calls |-> {}]

\* The handler up to the scroll
DeleteReceive(t) ==
    /\ CanStart(t)
    /\ \E header \in Headers, fileName \in {""} \cup Names :
          LET task == [DeleteTask(SessionIdOf(header), fileName) EXCEPT !.header = header]
          IN tasks' = [tasks EXCEPT ![t] =
                 IF fileName = ""
                 THEN Respond(task, 400, "fileName required")
                 ELSE IF ~({"QDRANT_URL", "QDRANT_KEY"} \subseteq env)
                 THEN Respond(task, 500, "Qdrant not configured")
                 ELSE task]
    /\ UNCHANGED <<env, redisTokens, redisFiles, index, usedIds, quota0>>

\* One page of client.scroll: every point when the collection fits the page,
\* else `limit` of them (the ones with the lowest ids, which are random uuids).
ScrollPages(limit) ==
    IF Cardinality(index) <= limit THEN {index}
    ELSE { page \in SUBSET index : Cardinality(page) = limit }

\* pointSource === fileName || (fileName === "User Text" && pointSource === "user_text")
IsMatchAnyName(point, fileName) == TRUE

IsMatch(point, fileName) ==
    \/ SourceOf(point) = fileName
    \/ (fileName = UserText /\ SourceOf(point) = "user_text")

\* The first element of the list whose name is fileName, if any
FirstNamed(list, fileName) ==
    LET hits == { i \in 1..Len(list) : list[i].name = fileName }
    IN IF hits = {} THEN None
       ELSE Some(list[CHOOSE i \in hits : \A j \in hits : i <= j])

\* The response after the points are deleted
DeleteDone(task) ==
    Respond([task EXCEPT !.deleted = Cardinality(task.toDelete), !.collection = {}],
            200, "success")

\* client.scroll and the selection of the points to delete
DeleteScroll(t) ==
    /\ tasks[t].kind = "delete" /\ tasks[t].pc = "scroll"
    /\ \E page \in ScrollPages(ScrollLimit) :
          LET toDelete == { p.id : p \in { q \in page : IsMatch(q, tasks[t].fileName) } }
              task == [Called(tasks[t], "scroll") EXCEPT !.toDelete = toDelete,
                                                             !.collection = index]
          IN tasks' = [tasks EXCEPT ![t] =
                 IF Cardinality(toDelete) = 0
                 THEN DeleteDone(task)
                 ELSE [task EXCEPT !.pc = "delete"]]
    /\ UNCHANGED <<env, redisTokens, redisFiles, index, usedIds, quota0>>

\* client.delete: removes the points with the given ids
DeleteDelete(t) ==
    /\ tasks[t].kind = "delete" /\ tasks[t].pc = "delete"
    /\ index' = { p \in index : p.id \notin tasks[t].toDelete }
    /\ tasks' = [tasks EXCEPT ![t] = [Called(@, "delete") EXCEPT !.pc = "lrange"]]
    /\ UNCHANGED <<env, redisTokens, redisFiles, usedIds, quota0>>

\* client.scroll or client.delete throws: the catch block answers 500
DeleteThrows(t) ==
    /\ tasks[t].kind = "delete" /\ tasks[t].pc \in {"scroll", "delete"}
    /\ tasks' = [tasks EXCEPT ![t] =
                     Respond([Called(@, tasks[t].pc) EXCEPT !.collection = {}],
                             500, "error.message")]
    /\ UNCHANGED <<env, redisTokens, redisFiles, index, usedIds, quota0>>

\* removeSessionFile: redis.lrange and the search of the list
DeleteLrange(t) ==
    /\ tasks[t].kind = "delete" /\ tasks[t].pc = "lrange"
    /\ LET task == Called(tasks[t], "redis.lrange")
           hit == FirstNamed(redisFiles[task.sessionId].list, task.fileName)
       IN tasks' = [tasks EXCEPT ![t] =
              IF hit = None THEN DeleteDone(task)
              ELSE [task EXCEPT !.fileJson = hit, !.pc = "lrem"]]
    /\ UNCHANGED <<env, redisTokens, redisFiles, index, usedIds, quota0>>

\* LREM key 1 item: removes the first element equal to item; a list that
\* becomes empty is an absent key, which has no time-to-live
RedisLrem1(key, item) ==
    LET hits == { i \in 1..Len(key.list) : key.list[i] = item }
        first == CHOOSE i \in hits : \A j \in hits : i <= j
        list == IF hits = {} THEN key.list
                ELSE SubSeq(key.list, 1, first - 1) \o SubSeq(key.list, first + 1, Len(key.list))
    IN [list |-> list, ttl |-> IF list = <<>> THEN 0 ELSE key.ttl]

\* removeSessionFile: redis.lrem, then the success response
DeleteLrem(t) ==
    /\ tasks[t].kind = "delete" /\ tasks[t].pc = "lrem"
    /\ redisFiles' = [redisFiles EXCEPT ![tasks[t].sessionId] =
                          RedisLrem1(@, tasks[t].fileJson[1])]
    /\ tasks' = [tasks EXCEPT ![t] = DeleteDone(Called(@, "redis.lrem"))]
    /\ UNCHANGED <<env, redisTokens, index, usedIds, quota0>>

DeleteStep(t) ==
    \/ DeleteReceive(t)
    \/ DeleteScroll(t)
    \/ DeleteDelete(t)
    \/ DeleteThrows(t)
    \/ DeleteLrange(t)
    \/ DeleteLrem(t)

-----------------------------------------------------------------------------
(* GET and DELETE /api/session *)

\* The locals of the session handlers; sessionId is the header itself, which
\* is null (here "") when the request carries none.
SessionTask(kind, header) ==
    [kind |-> kind, pc |-> "idle", sessionId |-> header, header |-> header,
     tokens |-> None, files |-> <<>>, toDelete |-> {},
     others |-> <<>>,   \* history: where the other requests were at clearSession
     status |-> 0, body |-> "", calls |-> {}]

\* The check both session handlers start with
SessionReceive(t, kind, pc) ==
    /\ CanStart(t)
    /\ \E header \in Headers :
          LET task == SessionTask(kind, header)
          IN tasks' = [tasks EXCEPT ![t] =
                 IF header = ""
                 THEN Respond(task, 400, "Session ID required")
                 ELSE [task EXCEPT !.pc = pc]]
    /\ UNCHANGED <<env, redisTokens, redisFiles, index, usedIds, quota0>>

SessionGetReceive(t) == SessionReceive(t, "session-get", "get")

\* GET: getSessionTokens, redis.get
SessionGetTokens(t) ==
    /\ tasks[t].kind = "session-get" /\ tasks[t].pc = "get"
    /\ LET tokens == RedisGet(redisTokens[tasks[t].sessionId])
           task == Called(tasks[t], "redis.get")
       IN tasks' = [tasks EXCEPT ![t] =
              IF tokens = None THEN [task EXCEPT !.pc = "set"]
              ELSE [task EXCEPT !.tokens = tokens, !.pc = "lrange"]]
    /\ UNCHANGED <<env, redisTokens, redisFiles, index, usedIds, quota0>>

\* GET: getSessionTokens, redis.set of the default for a new session
SessionInitTokens(t) ==
    /\ tasks[t].kind = "session-get" /\ tasks[t].pc = "set"
    /\ redisTokens' = [redisTokens EXCEPT ![tasks[t].sessionId] =
                           RedisSetEx(DEFAULT_TOKENS, SESSION_TTL)]
    /\ tasks' = [tasks EXCEPT ![t] =
                     [Called(@, "redis.set") EXCEPT !.tokens = Some(DEFAULT_TOKENS),
                                                    !.pc = "lrange"]]
    /\ UNCHANGED <<env, redisFiles, index, usedIds, quota0>>

\* GET: getSessionFiles and the response { tokens, files }
SessionGetFiles(t) ==
    /\ tasks[t].kind = "session-get" /\ tasks[t].pc = "lrange"
    /\ tasks' = [tasks EXCEPT ![t] =
                     Respond([Called(@, "redis.lrange")
                                  EXCEPT !.files = redisFiles[tasks[t].sessionId].list],
                             200, "tokens, files")]
    /\ UNCHANGED <<env, redisTokens, redisFiles, index, usedIds, quota0>>

SessionDeleteReceive(t) == SessionReceive(t, "session-delete", "del")

\* DELETE: clearSession, then the test of the Qdrant environment
SessionClear(t) ==
    /\ tasks[t].kind = "session-delete" /\ tasks[t].pc = "del"
    /\ redisTokens' = [redisTokens EXCEPT ![tasks[t].sessionId] = NoKey]
    /\ redisFiles' = [redisFiles EXCEPT ![tasks[t].sessionId] = NoList]
    /\ LET task == Called(tasks[t], "redis.del")
       IN tasks' = [tasks EXCEPT ![t] =
              IF {"QDRANT_URL", "QDRANT_KEY"} \subseteq env
              THEN [task EXCEPT !.pc = "scroll", !.others = [u \in Tasks |-> tasks[u].pc]]
              ELSE Respond(task, 200, "success")]
    /\ UNCHANGED <<env, index, usedIds, quota0>>

\* DELETE: one page of qdrantClient.scroll and the points of the tenant on it
SessionScroll(t) ==
    /\ tasks[t].kind = "session-delete" /\ tasks[t].pc = "scroll"
    /\ \E page \in ScrollPages(ScrollLimit) :
          LET toDelete == { p.id : p \in { q \in page : TenantOf(q) = tasks[t].sessionId } }
              task == [Called(tasks[t], "scroll") EXCEPT !.toDelete = toDelete]
          IN tasks' = [tasks EXCEPT ![t] =
                 IF Cardinality(toDelete) > 0
                 THEN [task EXCEPT !.pc = "delete"]
                 ELSE Respond([task EXCEPT !.others = <<>>], 200, "success")]
    /\ UNCHANGED <<env, redisTokens, redisFiles, index, usedIds, quota0>>

\* DELETE: qdrantClient.delete and the response
SessionDeleteDelete(t) ==
    /\ tasks[t].kind = "session-delete" /\ tasks[t].pc = "delete"
    /\ index' = { p \in index : p.id \notin tasks[t].toDelete }
    /\ tasks' = [tasks EXCEPT ![t] =
                     Respond([Called(@, "delete") EXCEPT !.toDelete = {}, !.others = <<>>],
                             200, "success")]
    /\ UNCHANGED <<env, redisTokens, redisFiles, usedIds, quota0>>

SessionCleanupFailedFatal(task) == Respond(task, 500, "Internal server error")

\* catch (qdrantError): logged, and the handler goes on to its response
SessionCleanupFailed(task) == Respond(task, 200, "success")

\* DELETE: qdrantClient.scroll or qdrantClient.delete throws
SessionQdrantThrows(t) ==
    /\ tasks[t].kind = "session-delete" /\ tasks[t].pc \in {"scroll", "delete"}
    /\ tasks' = [tasks EXCEPT ![t] =
                     SessionCleanupFailed([Called(Called(@, tasks[t].pc), "qdrantError")
                                              EXCEPT !.toDelete = {}, !.others = <<>>])]
    /\ UNCHANGED <<env, redisTokens, redisFiles, index, usedIds, quota0>>

SessionStep(t) ==
    \/ SessionGetReceive(t)
    \/ SessionGetTokens(t)
    \/ SessionInitTokens(t)
    \/ SessionGetFiles(t)
    \/ SessionDeleteReceive(t)
    \/ SessionClear(t)
    \/ SessionScroll(t)
    \/ SessionDeleteDelete(t)
    \/ SessionQdrantThrows(t)

-----------------------------------------------------------------------------
(* The page: handleSendMessage from the streamed response on, and stopStreaming *)

\* The answer the server streams: tokens 1..n, one per chunk
Answer(n) == [k \in 1..n |-> k]

\* The locals of handleSendMessage once the response has arrived: the body
\* still to be read, the typewriter's buffer and interval, and the flags the
\* interval's closure sees. isStreaming is the state the closure captured when
\* the message was sent. consumed and ticks are history: the tokens read so
\* far and the parity of the interval's calls. outcome is history: the way
\* the handler left its try statement.
SendTask(answer) ==
    [kind |-> "send", pc |-> "read", upstream |-> answer,
     buffer |-> <<>>, displayedContent |-> <<>>,
     isTyping |-> TRUE, isStreaming |-> FALSE, typeWriter |-> TRUE,
     isCancelled |-> FALSE, consumed |-> <<>>, ticks |-> 0, outcome |-> ""]

\* handleSendMessage up to the first reader.read(): the response is ok and has
\* a body. A message is sent while no other answer is streaming.
SendStart(t) ==
    /\ CanStart(t)
    /\ \A u \in Tasks : tasks[u].kind = "send" => tasks[u].pc = "done"
    /\ \E n \in 1..MaxTokens : tasks' = [tasks EXCEPT ![t] = SendTask(Answer(n))]
    /\ UNCHANGED <<env, redisTokens, redisFiles, index, usedIds, quota0>>

\* One round of the read loop: done ends it, a chunk goes to the buffer
SendRead(t) ==
    /\ tasks[t].kind = "send" /\ tasks[t].pc = "read" /\ ~tasks[t].isCancelled
    /\ tasks' = [tasks EXCEPT ![t] =
                     IF tasks[t].upstream = <<>>
                     THEN [@ EXCEPT !.isTyping = FALSE, !.pc = "done", !.outcome = "completed"]
                     ELSE [@ EXCEPT !.buffer = Append(@, Head(tasks[t].upstream)),
                                    !.consumed = Append(@, Head(tasks[t].upstream)),
                                    !.upstream = Tail(@)]]
    /\ UNCHANGED <<env, redisTokens, redisFiles, index, usedIds, quota0>>

\* stopStreaming while the request or the answer is under way: abort() and
\* isCancelledRef
StopStreaming(t) ==
    /\ tasks[t].kind = "send" /\ tasks[t].pc \in {"fetch", "read"} /\ ~tasks[t].isCancelled
    /\ tasks' = [tasks EXCEPT ![t] = [@ EXCEPT !.isCancelled = TRUE]]
    /\ UNCHANGED <<env, redisTokens, redisFiles, index, usedIds, quota0>>

\* The pending fetch or reader.read() rejects with AbortError: catch, then finally
SendAborted(t) ==
    /\ tasks[t].kind = "send" /\ tasks[t].pc \in {"fetch", "read"} /\ tasks[t].isCancelled
    /\ tasks' = [tasks EXCEPT ![t] = [@ EXCEPT !.pc = "done", !.outcome = "aborted"]]
    /\ UNCHANGED <<env, redisTokens, redisFiles, index, usedIds, quota0>>

\* reader.read() rejects with another error (the stream broke): catch, then finally
SendFailed(t) ==
    /\ tasks[t].kind = "send" /\ tasks[t].pc = "read" /\ ~tasks[t].isCancelled
    /\ tasks' = [tasks EXCEPT ![t] = [@ EXCEPT !.pc = "done", !.outcome = "failed"]]
    /\ UNCHANGED <<env, redisTokens, redisFiles, index, usedIds, quota0>>

\* The callback of the typeWriter interval
TypeWriter(task) ==
    IF task.buffer # <<>>
    THEN [task EXCEPT !.displayedContent = Append(@, Head(task.buffer)),
                      !.buffer = Tail(@)]
    ELSE IF ~task.isTyping /\ ~task.isStreaming
    THEN [task EXCEPT !.typeWriter = FALSE]
    ELSE task

\* The interval fires
TypeWriterTick(t) ==
    /\ tasks[t].kind = "send" /\ tasks[t].typeWriter
    /\ tasks' = [tasks EXCEPT ![t] = [TypeWriter(@) EXCEPT !.ticks = 1 - @]]
    /\ UNCHANGED <<env, redisTokens, redisFiles, index, usedIds, quota0>>

\* Number.prototype.toString of an integer: a sign and decimal digits
DigitChars == <<"0", "1", "2", "3", "4", "5", "6", "7", "8", "9">>

RECURSIVE NatToString(_)
NatToString(n) ==
    IF n < 10 THEN <<DigitChars[n + 1]>>
    ELSE NatToString(n \div 10) \o <<DigitChars[(n % 10) + 1]>>

NumberToString(n) == IF n < 0 THEN <<"-">> \o NatToString(0 - n) ELSE NatToString(n)

\* parseInt(string, 10) of such a string
DigitValue(c) == CHOOSE d \in 0..9 : DigitChars[d + 1] = c

RECURSIVE ParseDigits(_, _)
ParseDigits(str, acc) ==
    IF str = <<>> THEN acc
    ELSE ParseDigits(Tail(str), 10 * acc + DigitValue(Head(str)))

ParseInt(str) ==
    IF Head(str) = "-" THEN 0 - ParseDigits(Tail(str), 0) ELSE ParseDigits(str, 0)

\* The chat request of a message sent from slot t takes the next slot
Request(t) == t + 1

\* response.headers.get("x-remaining-tokens") of the response to a request
RemainingTokensHeader(request) ==
    IF request.body = "x-remaining-tokens"
    THEN Some(NumberToString(request.remainingTokens[1]))
    ELSE None

\* Math.max(0, prev - 1)
OptimisticTokens(prev) == IF prev - 1 < 0 THEN 0 ELSE prev - 1

\* The locals of handleSendMessage while the request is under way, and the
\* page's token count
PageTask(tokens) ==
    [tokens |-> tokens]
        @@ [SendTask(<<>>) EXCEPT !.pc = "fetch", !.isTyping = FALSE, !.typeWriter = FALSE]

\* handleSendMessage up to the fetch: nothing is sent when the count shown is
\* not positive
PageSend(t) ==
    /\ CanStart(t) /\ t < MaxTasks
    /\ \A u \in Tasks : tasks[u].kind = "send" => tasks[u].pc = "done"
    /\ \E tokens \in 0..MaxShown :
          /\ ~(tokens <= 0)
          /\ tasks' = [tasks EXCEPT ![t] = PageTask(OptimisticTokens(tokens))]
    /\ UNCHANGED <<env, redisTokens, redisFiles, index, usedIds, quota0>>

\* What setTokens(0) on a 429 leaves on the page
TokensOn429(tokens) == 0

\* The response arrives: the branch on response.ok, the token count, and the
\* typewriter of a streamed answer
PageResponse(t) ==
    /\ tasks[t].kind = "send" /\ tasks[t].pc = "fetch" /\ ~tasks[t].isCancelled
    /\ t < MaxTasks
    /\ tasks[Request(t)].kind = "chat" /\ tasks[Request(t)].status # 0
    /\ LET response == tasks[Request(t)]
           header == RemainingTokensHeader(response)
       IN \E n \in 1..MaxTokens :
              tasks' = [tasks EXCEPT ![t] =
                  IF response.status # 200
                  THEN [@ EXCEPT !.pc = "done", !.outcome = "failed",
                                 !.tokens = IF response.status = 429
                                            THEN TokensOn429(@) ELSE @]
                  ELSE [@ EXCEPT !.pc = "read", !.upstream = Answer(n),
                                 !.isTyping = TRUE, !.typeWriter = TRUE,
                                 !.tokens = IF header # None /\ header[1] # <<>>
                                            THEN ParseInt(header[1]) ELSE @]]
    /\ UNCHANGED <<env, redisTokens, redisFiles, index, usedIds, quota0>>

SendStep(t) ==
    \/ SendStart(t)
    \/ SendRead(t)
    \/ StopStreaming(t)
    \/ SendAborted(t)
    \/ SendFailed(t)
    \/ TypeWriterTick(t)

-----------------------------------------------------------------------------
(* Specifications *)

\* The service after deployment: an empty session store and an empty collection.
Init ==
    /\ env \in Envs
    /\ redisTokens = [s \in Sessions |-> NoKey]
    /\ quota0 = [s \in Sessions |-> None]
    /\ redisFiles = [s \in Sessions |-> NoList]
    /\ index = {}
    /\ usedIds = {}
    /\ tasks = [t \in Tasks |-> Idle]

Next ==
    \E t \in Tasks :
        \/ ChatReceive(t, {""} \cup Names, MaxChats)
        \/ ChatStep(t)
        \/ IngestReceive(t, {"a.txt"})
        \/ IngestStep(t)
        \/ DeleteStep(t)

Spec == Init /\ [][Next]_vars

\* The quota scenario: question requests only, against counters that earlier
\* requests have left in the session store.
InitQuota ==
    /\ env \in Envs
    /\ \E q \in 0..MaxQuota0 :
          redisTokens = [s \in Sessions |->
              IF s = "s1" THEN RedisSetEx(q, SESSION_TTL) ELSE NoKey]
    /\ quota0 = [s \in Sessions |-> RedisGet(redisTokens[s])]
    /\ redisFiles = [s \in Sessions |-> NoList]
    /\ index = {}
    /\ usedIds = {}
    /\ tasks = [t \in Tasks |-> Idle]

NextQuota == \E t \in Tasks : ChatReceive(t, {""}, MaxQuotaTasks) \/ ChatStep(t)

SpecQuota == InitQuota /\ [][NextQuota]_vars

\* The catch block of the chat handler on every error considered, one
\* question at a time.
NextClassify ==
    \E t \in Tasks :
        ChatReceive(t, {""}, 1) \/ ChatStep(t) \/ ChatEmbedFailsWith(t, Errors)

SpecClassify == Init /\ [][NextClassify]_vars

\* The page while answers stream.
NextStream == \E t \in Tasks : SendStep(t)

SpecStream == Init /\ [][NextStream]_vars

\* The page and the chat handler: a message sent from the page, its request
\* and the requests of other pages of the session. The handler runs on, the
\* response and the chunks of the body arrive, and a stopped request rejects.
NextPage ==
    \E t \in Tasks :
        \/ PageSend(t)
        \/ PageResponse(t)
        \/ SendRead(t)
        \/ StopStreaming(t)
        \/ SendAborted(t)
        \/ SendFailed(t)
        \/ TypeWriterTick(t)
        \/ ChatReceive(t, {""}, MaxQuotaTasks)
        \/ ChatStep(t)

SpecPage ==
    /\ InitQuota /\ [][NextPage]_vars
    /\ \A t \in Tasks :
          /\ WF_vars(ChatStep(t))
          /\ WF_vars(PageResponse(t))
          /\ WF_vars(SendRead(t))
          /\ WF_vars(SendAborted(t))

\* Ingestion alone: uploads of supported and unsupported files and of raw text.
Ingests == { t \in Tasks : tasks[t].kind = "ingest" }

NextIngest ==
    \E t \in Tasks :
        \/ Cardinality(Ingests) < MaxIngests /\ IngestReceive(t, {"a.txt", "a.exe"})
        \/ IngestStep(t)

SpecIngest == Init /\ [][NextIngest]_vars

\* One upload with any combination of file, url and text in its body.
NextUpload ==
    \E t \in Tasks :
        \/ Cardinality(Ingests) < 1 /\ IngestReceiveFrom(t, AllIngestBodies)
        \/ IngestStep(t)

SpecUpload == Init /\ [][NextUpload]_vars

\* Sessions: uploads, then reads and deletions of the session.
NextSession ==
    \E t \in Tasks :
        \/ Cardinality(Ingests) < MaxIngests /\ IngestReceive(t, {"a.txt"})
        \/ IngestStep(t)
        \/ SessionStep(t)

SpecSession == Init /\ [][NextSession]_vars

\* The session store over time: questions and uploads of raw text, and keys
\* whose time-to-live runs out.
NextExpiry ==
    \/ \E t \in Tasks :
          \/ ChatReceive(t, {""}, 1)
          \/ ChatStep(t)
          \/ Cardinality(Ingests) < MaxIngests /\ IngestReceive(t, {})
          \/ IngestStep(t)
    \/ \E s \in Sessions : CounterExpires(s) \/ ListExpires(s)

SpecExpiry == Init /\ [][NextExpiry]_vars

\* Retrieval: one question against a collection that earlier uploads have left
\* and that is ranked by the similarity to the question.
OtherTenant == "s2"

\* The chunks of the two sessions, by tenant and source
SessionDocs == { Doc(source, s) : source \in Names, s \in Sessions }

\* A collection: `foreign` chunks of another tenant rank first, the given
\* chunks follow in their order.
Collection(foreign, docs) ==
    { Point(i, Doc(UserText, OtherTenant), OtherTenant) : i \in 1..foreign }
        \cup { Point(foreign + i, docs[i], docs[i].tenant_id) : i \in 1..Len(docs) }

SeqsUpTo(S, n) == UNION { [1..k -> S] : k \in 0..n }

InitCollection(collections) ==
    /\ env = EnvVars
    /\ redisTokens = [s \in Sessions |-> NoKey]
    /\ quota0 = [s \in Sessions |-> None]
    /\ redisFiles = [s \in Sessions |-> NoList]
    /\ index \in collections
    /\ usedIds = { p.id : p \in index }
    /\ tasks = [t \in Tasks |-> Idle]

InitRetrieve ==
    InitCollection({ Collection(0, docs) : docs \in SeqsUpTo(SessionDocs, MaxRanked) })

InitShared ==
    InitCollection({ Collection(n, docs) : n \in 0..MaxForeign,
                                           docs \in SeqsUpTo(SessionDocs, MaxOwn) })

NextRetrieve ==
    \E t \in Tasks :
        \/ ChatReceive(t, {""} \cup Names, 1)
        \/ ChatGetTokens(t)
        \/ ChatInitTokens(t)
        \/ ChatDecrement(t)
        \/ ChatExpire(t)
        \/ ChatEmbedFails(t)
        \/ ChatSearchFails(t)
        \/ ChatRetrieveFrom(t, RankedSearch(SearchLimit))
        \/ ChatStreamEnds(t)

SpecRetrieve == InitRetrieve /\ [][NextRetrieve]_vars

SpecShared == InitShared /\ [][NextRetrieve]_vars

-----------------------------------------------------------------------------
(* The quota gate: claims checked under SpecQuota *)

ChatTasksOf(s) == { t \in Tasks : tasks[t].kind = "chat" /\ tasks[t].sessionId = s }

\* The question requests that passed the quota gate
Admitted(s) ==
    { t \in ChatTasksOf(s) :
        \/ tasks[t].pc \in {"decr", "expire", "retrieve", "streaming"}
        \/ "redis.decr" \in tasks[t].calls }

NoneInFlight == \A t \in Tasks : tasks[t].pc \in {"idle", "done"}

\* C2: while at most N question requests have been made for a session whose
\* stored counter was N, the stored counter is never below zero, in any
\* interleaving of the requests' store operations.
C2_NeverBelowZero ==
    \A s \in Sessions :
        (quota0[s] # None /\ Cardinality(ChatTasksOf(s)) <= quota0[s][1])
            => redisTokens[s].value >= 0

\* Two requests of one session are past the gate at once and have used the
\* two units the session had.
C2_Witness ==
    \E s \in Sessions : \E t, u \in Admitted(s) :
        /\ t # u
        /\ quota0[s] = Some(2)
        /\ tasks[t].pc = "expire" /\ tasks[u].pc = "expire"
        /\ redisTokens[s].value = 0

\* C3: the number of questions admitted for a session never exceeds the quota
\* that was available to it; with one unit left, at most one of two concurrent
\* questions passes the gate.
C3_NoOverAdmission ==
    \A s \in Sessions :
        quota0[s] # None => Cardinality(Admitted(s)) <= quota0[s][1]

\* C4: the stored counter never increases, and when no request is in flight a
\* counter that did not exist at the first reference equals the default minus
\* the number of admitted questions.
C4_OneUnitPerQuestion ==
    /\ [][\A s \in Sessions :
             redisTokens[s].exists => redisTokens'[s].value <= redisTokens[s].value]_vars
    /\ [](NoneInFlight =>
             \A s \in Sessions :
                 (quota0[s] = None /\ redisTokens[s].exists)
                     => redisTokens[s].value = DEFAULT_TOKENS - Cardinality(Admitted(s)))

\* C5: a question that finds the counter at or below zero is answered 429 with
\* tokens: 0 having made no call but the read of the counter; and when a session
\* with one unit asks a second question after the first has been answered, the
\* first was admitted, the counter is 0 and the second is rejected.
C5_Rejected(t) ==
    (tasks[t].kind = "chat" /\ tasks[t].tokens # None /\ tasks[t].tokens[1] <= 0)
        => /\ tasks[t].pc = "done"
           /\ tasks[t].status = 429
           /\ tasks[t].body = "tokens: 0"
           /\ tasks[t].calls = {"redis.get"}
           /\ tasks[t].remainingTokens = None

C5_SecondAfterFirst(t, u) ==
    LET s == tasks[u].sessionId
    IN (/\ t # u
        /\ tasks[t].kind = "chat" /\ tasks[u].kind = "chat"
        /\ tasks[t].sessionId = s
        /\ quota0[s] = Some(1)
        /\ ChatTasksOf(s) = {t, u}
        /\ tasks[t].nsources = 1 /\ tasks[t].question # ""
        /\ tasks[t].pc = "done"
        /\ tasks[u].pc = "get" /\ tasks'[u].pc # "get")
       => /\ "redis.decr" \in tasks[t].calls
          /\ tasks[t].remainingTokens = Some(0)
          /\ redisTokens[s].value = 0
          /\ tasks'[u].pc = "done" /\ tasks'[u].status = 429
          /\ tasks'[u].body = "tokens: 0"
          /\ redisTokens'[s] = redisTokens[s]

C5_QuotaRejection ==
    /\ [](\A t \in Tasks : C5_Rejected(t))
    /\ [][\A t, u \in Tasks : C5_SecondAfterFirst(t, u)]_vars

\* A session that had one unit: the first question streamed its answer, the
\* second was rejected.
C5_Witness ==
    \E t, u \in Tasks :
        /\ t # u
        /\ tasks[t].kind = "chat" /\ tasks[u].kind = "chat"
        /\ tasks[t].sessionId = tasks[u].sessionId
        /\ quota0[tasks[t].sessionId] = Some(1)
        /\ tasks[t].pc = "done" /\ tasks[t].status = 200
        /\ tasks[u].pc = "done" /\ tasks[u].status = 429
        /\ redisTokens[tasks[t].sessionId].value = 0

\* C9: a question without text or without sources is answered 400 and the
\* request makes no call at all: not on the session store, not on the
\* embedding model, the index or the generative model.
C9_InvalidInputFirst ==
    \A t \in Tasks :
        (tasks[t].kind = "chat" /\ (tasks[t].question = "" \/ tasks[t].nsources = 0))
            => /\ tasks[t].pc = "done"
               /\ tasks[t].status = 400
               /\ tasks[t].calls = {}
               /\ tasks[t].tokens = None /\ tasks[t].remainingTokens = None

\* A question with no sources attached was answered 400, and the counter of
\* its session still does not exist.
C9_Witness ==
    \E t \in Tasks :
        /\ tasks[t].kind = "chat" /\ tasks[t].nsources = 0
        /\ tasks[t].pc = "done" /\ tasks[t].status = 400
        /\ ~redisTokens[tasks[t].sessionId].exists

\* C10: a request answered 500 for missing configuration has made no call and
\* has left the session store as it was.
ConfigurationErrors ==
    {"Qdrant environment variables not set", "Google API key not set",
     "Missing environment variables"}

C10_ConfigurationFirst ==
    \A t \in Tasks :
        (tasks[t].kind \in {"chat", "ingest"} /\ tasks[t].pc = "done"
            /\ tasks[t].status = 500 /\ tasks[t].body \in ConfigurationErrors)
            => tasks[t].calls = {}

-----------------------------------------------------------------------------
(* Retrieval and source deletion: claims checked under Spec *)

\* C1: every chunk in the list the chat handler builds for a question asked
\* under a session was ingested under that session, whatever the similarity
\* search returned.
C1_TenantIsolation ==
    \A t \in Tasks :
        tasks[t].kind = "chat" =>
            \A i \in 1..Len(tasks[t].sessionResults) :
                /\ tasks[t].sessionResults[i].ingestedBy = tasks[t].sessionId
                /\ TenantOf(tasks[t].sessionResults[i]) = tasks[t].sessionId

\* A question has retrieved chunks of its session while the index also holds
\* a chunk another session ingested.
C1_Witness ==
    \E t \in Tasks :
        /\ tasks[t].kind = "chat" /\ tasks[t].pc = "streaming"
        /\ tasks[t].sessionResults # <<>>
        /\ \E p \in index : p.ingestedBy # tasks[t].sessionId

\* The step that completes the index half of a DELETE /ingest for a collection
\* that has not changed since the request scrolled it
DeletesFromIndex(t) ==
    /\ tasks[t].kind = "delete"
    /\ \/ tasks[t].pc = "scroll" /\ tasks'[t].pc = "done" /\ tasks'[t].status = 200
       \/ tasks[t].pc = "delete" /\ tasks'[t].pc = "lrange" /\ tasks[t].collection = index

\* C6: a DELETE /ingest for name n removes from the index every chunk whose
\* source name is n and no other chunk; when no chunk has that source name the
\* index is unchanged and the response is success with deleted: 0.
C6_RemovesExactlyNamed ==
    [][\A t \in Tasks :
          DeletesFromIndex(t) =>
              /\ index' = { p \in index : SourceOf(p) # tasks[t].fileName }
              /\ (\A p \in index : SourceOf(p) # tasks[t].fileName)
                    => /\ tasks'[t].pc = "done" /\ tasks'[t].status = 200
                       /\ tasks'[t].deleted = 0]_vars

\* C7: when a DELETE /ingest for name n under session S answers success, the
\* source list of S has no entry named n.
C7_SourceListEntryRemoved ==
    [][\A t \in Tasks :
          (/\ tasks[t].kind = "delete" /\ tasks[t].pc # "done"
           /\ tasks'[t].pc = "done" /\ tasks'[t].status = 200)
          => \A i \in 1..Len(redisFiles'[tasks[t].sessionId].list) :
                 redisFiles'[tasks[t].sessionId].list[i].name # tasks[t].fileName]_vars

\* C8: every chunk a DELETE /ingest request removes from the index belongs to
\* the session the request was issued under.
C8_DeleteWithinSession ==
    [][\A t \in Tasks :
          (tasks[t].kind = "delete" /\ tasks[t].pc = "delete" /\ tasks'[t].pc = "lrange")
          => \A p \in index \ index' :
                 /\ TenantOf(p) = tasks[t].sessionId
                 /\ p.ingestedBy = tasks[t].sessionId]_vars

-----------------------------------------------------------------------------
(* Ingestion: claims checked under SpecIngest *)

\* The entries of a session's source list that carry the given name
NamedEntries(list, name) == { i \in 1..Len(list) : list[i].name = name }

\* The chunks of the index for a tenant/source pair
PairChunks(points, sessionId, source) ==
    { p \in points : TenantOf(p) = sessionId /\ SourceOf(p) = source }

\* C11: an ingest request that reports failure has appended nothing to the
\* session's source list, and an entry is appended only by a request whose
\* upsert of all chunks has succeeded.
C11_Failed(t) ==
    (tasks[t].kind = "ingest" /\ tasks[t].pc = "done" /\ tasks[t].status # 200)
        => "redis.rpush" \notin tasks[t].calls

C11_AppendAfterUpsert ==
    \A s \in Sessions :
        redisFiles'[s].list # redisFiles[s].list =>
            \E t \in Tasks :
                /\ tasks[t].kind = "ingest" /\ tasks[t].sessionId = s
                /\ tasks[t].pc = "rpush" /\ tasks'[t].pc = "expire"
                /\ "upsert" \in tasks[t].calls
                /\ redisFiles'[s].list =
                       Append(redisFiles[s].list, FileMetadata(tasks[t].file, tasks[t].url, tasks[t].text))

C11_FailureLeavesList ==
    \A t \in Tasks :
        (tasks[t].pc # "done" /\ tasks'[t].kind = "ingest"
            /\ tasks'[t].pc = "done" /\ tasks'[t].status # 200)
        => redisFiles' = redisFiles

C11_AllOrNothing ==
    /\ [](\A t \in Tasks : C11_Failed(t))
    /\ [][C11_AppendAfterUpsert /\ C11_FailureLeavesList]_vars

\* An ingest failed in the embedding or the upsert while a request of the
\* same session had recorded its source: the list holds that one entry only.
C11_Witness ==
    \E t, u \in Tasks :
        /\ tasks[t].kind = "ingest" /\ tasks[t].pc = "done" /\ tasks[t].status = 500
        /\ "embedDocuments" \in tasks[t].calls
        /\ tasks[u].kind = "ingest" /\ tasks[u].pc = "done" /\ tasks[u].status = 200
        /\ tasks[u].sessionId = tasks[t].sessionId
        /\ Len(redisFiles[tasks[t].sessionId].list) = 1

\* C12: an upload whose extension is not pdf, md, markdown or txt is answered
\* 400 before any embedding or index call.
SupportedExtensions == {"pdf", "md", "markdown", "txt"}

C12_UnsupportedFormat ==
    \A t \in Tasks :
        (/\ tasks[t].kind = "ingest" /\ tasks[t].file # ""
         /\ Extension(tasks[t].file) \notin SupportedExtensions
         /\ IngestEnvOk)
        => /\ tasks[t].pc = "done"
           /\ tasks[t].status = 400
           /\ tasks[t].calls = {}

\* C18: an ingestion of a source strictly increases the number of chunks of
\* its tenant/source pair and keeps every chunk that was there, and it appends
\* one more entry with the source's name to the session's list, also when the
\* source is already attached.
C18_Upsert(t) ==
    (tasks[t].kind = "ingest" /\ tasks[t].pc = "upsert" /\ tasks'[t].pc = "rpush")
    => LET s == tasks[t].sessionId
           n == SourceName(tasks[t].file, tasks[t].url, tasks[t].text)
       IN /\ index \subseteq index'
          /\ Cardinality(PairChunks(index', s, n)) > Cardinality(PairChunks(index, s, n))

C18_Rpush(t) ==
    (tasks[t].kind = "ingest" /\ tasks[t].pc = "rpush" /\ tasks'[t].pc = "expire")
    => LET s == tasks[t].sessionId
           n == SourceName(tasks[t].file, tasks[t].url, tasks[t].text)
       IN /\ Len(redisFiles'[s].list) = Len(redisFiles[s].list) + 1
          /\ Cardinality(NamedEntries(redisFiles'[s].list, n))
                 = Cardinality(NamedEntries(redisFiles[s].list, n)) + 1

-----------------------------------------------------------------------------
(* The session endpoints: claims checked under SpecSession *)

\* No other request has taken a step since the request cleared the session
AloneSinceClear(t) ==
    \A u \in Tasks :
        u # t => tasks[u].pc \in {"idle", "done"} /\ tasks[t].others[u] = tasks[u].pc

\* The step with which a DELETE /session that met no index-store error and
\* ran alone gives its response
SessionDeleted(t) ==
    /\ tasks[t].kind = "session-delete" /\ tasks[t].pc \in {"scroll", "delete"}
    /\ tasks'[t].pc = "done"
    /\ "qdrantError" \notin tasks'[t].calls
    /\ AloneSinceClear(t)

\* C13: when DELETE /session for S completes with the index store available,
\* the counter key and the source-list key of S do not exist and the index
\* holds no chunk of tenant S, however many chunks S had; and a GET /session
\* that finds no counter reports the default of 10.
C13_SessionGone ==
    /\ [][\A t \in Tasks :
             SessionDeleted(t) =>
                 /\ tasks'[t].status = 200
                 /\ redisTokens'[tasks[t].sessionId] = NoKey
                 /\ redisFiles'[tasks[t].sessionId] = NoList
                 /\ \A p \in index' : TenantOf(p) # tasks[t].sessionId]_vars
    /\ [](\A t \in Tasks :
             (tasks[t].kind = "session-get" /\ "redis.set" \in tasks[t].calls)
                 => tasks[t].tokens = Some(DEFAULT_TOKENS))

\* C14: when the scroll or the delete of the index store fails during
\* DELETE /session, the request answers success; the keys of the session were
\* deleted before the index store was called; a DELETE /session that carries a
\* session id is never answered with an error.
C14_CleanupFails(t) ==
    (/\ tasks[t].kind = "session-delete"
     /\ "qdrantError" \notin tasks[t].calls
     /\ "qdrantError" \in tasks'[t].calls)
    => /\ tasks'[t].pc = "done" /\ tasks'[t].status = 200 /\ tasks'[t].body = "success"
       /\ "redis.del" \in tasks[t].calls
       /\ redisTokens' = redisTokens /\ redisFiles' = redisFiles

C14_ClearedFirst(t) ==
    (tasks[t].kind = "session-delete" /\ tasks[t].pc = "del" /\ tasks'[t].pc # "del")
    => /\ tasks[t].calls = {}
       /\ redisTokens'[tasks[t].sessionId] = NoKey
       /\ redisFiles'[tasks[t].sessionId] = NoList

C14_NeverAnError(t) ==
    (tasks[t].kind = "session-delete" /\ tasks[t].header # "" /\ tasks[t].pc = "done")
        => tasks[t].status = 200

C14_BestEffort ==
    /\ [](\A t \in Tasks : C14_NeverAnError(t))
    /\ [][\A t \in Tasks : C14_CleanupFails(t) /\ C14_ClearedFirst(t)]_vars

\* A DELETE /session whose index cleanup failed has answered success: the
\* keys of the session are gone, its chunks are still in the index.
C14_Witness ==
    \E t \in Tasks :
        /\ tasks[t].kind = "session-delete" /\ tasks[t].pc = "done"
        /\ "qdrantError" \in tasks[t].calls
        /\ tasks[t].status = 200
        /\ redisTokens[tasks[t].sessionId] = NoKey
        /\ redisFiles[tasks[t].sessionId] = NoList
        /\ \E p \in index : TenantOf(p) = tasks[t].sessionId
        /\ \E u \in Tasks : /\ tasks[u].kind = "ingest" /\ tasks[u].pc = "done"
                            /\ tasks[u].status = 200
                            /\ tasks[u].sessionId = tasks[t].sessionId

\* C15: a request that carries no session header is processed under the
\* default session id and is not rejected for the missing header.
C15_DefaultSessionFallback ==
    \A t \in Tasks :
        (tasks[t].kind # "none" /\ tasks[t].header = "")
            => /\ tasks[t].sessionId = DefaultSession
               /\ ~(tasks[t].status = 400 /\ tasks[t].body = "Session ID required")

-----------------------------------------------------------------------------
(* After the quota gate: claims checked under SpecQuota *)

\* C16: no step of a chat request raises a counter, and the steps a request
\* takes after its decrement, its failures included, leave the counter of its
\* session at the value it has.
C16_StepOf(t) == tasks'[t] # tasks[t] /\ tasks'[t].kind = "chat"

C16_NoRefund ==
    [][\A t \in Tasks :
          C16_StepOf(t) =>
              /\ \A s \in Sessions :
                     redisTokens[s].exists =>
                         /\ redisTokens'[s].exists
                         /\ redisTokens'[s].value <= redisTokens[s].value
              /\ (tasks[t].kind = "chat" /\ "redis.decr" \in tasks[t].calls)
                     => redisTokens'[tasks[t].sessionId].value
                            = redisTokens[tasks[t].sessionId].value]_vars

\* C17: an admitted question whose retrieval leaves no chunk goes on to the
\* generation with the prompt that has no document context, and a request that
\* ends in the retrieval step, before the generation is called, does not end
\* with an error response.
C17_RetrievalCannotFail ==
    \A t \in Tasks :
        tasks[t].kind = "chat" =>
            /\ (tasks[t].pc = "streaming" /\ tasks[t].sessionResults = <<>>)
                   => /\ tasks[t].status = 200
                      /\ ~tasks[t].hasContext
                      /\ "streamText" \in tasks[t].calls
            /\ (/\ tasks[t].pc = "done"
                /\ {"embedQuery", "search"} \cap tasks[t].calls # {}
                /\ "streamText" \notin tasks[t].calls)
                   => tasks[t].status < 400

-----------------------------------------------------------------------------
(* The classification of caught errors: claims checked under SpecClassify *)

ErrorTypes == {"quota_exceeded", "rate_limited", "auth_error", "model_error", "generic_error"}

\* C20: the response to a caught error carries exactly one of the five error
\* types, the first in the order quota, rate limit, authentication, model
\* whose test the error passes and generic_error when it passes none; an error
\* that is nothing but a status is rate_limited for 429, auth_error for 401
\* and 403, model_error for 404.
C20_Classified(err, type, status) ==
    /\ type \in ErrorTypes
    /\ IsQuota(err) => type = "quota_exceeded" /\ status = 429
    /\ (~IsQuota(err) /\ IsRateLimit(err)) => type = "rate_limited" /\ status = 429
    /\ (~IsQuota(err) /\ ~IsRateLimit(err) /\ IsAuth(err))
           => type = "auth_error" /\ status = 500
    /\ (~IsQuota(err) /\ ~IsRateLimit(err) /\ ~IsAuth(err) /\ IsModel(err))
           => type = "model_error" /\ status = 503
    /\ (~IsQuota(err) /\ ~IsRateLimit(err) /\ ~IsAuth(err) /\ ~IsModel(err))
           => type = "generic_error" /\ status = 500
    /\ "quota" \in err.message => type = "quota_exceeded"
    /\ (err.message = {} /\ err.string = {}) =>
           /\ err.status = 429 => type = "rate_limited"
           /\ err.status \in {401, 403} => type = "auth_error"
           /\ err.status = 404 => type = "model_error"
           /\ err.status \in {0, 500} => type = "generic_error"

C20_ErrorClassification ==
    \A t \in Tasks :
        (tasks[t].kind = "chat" /\ tasks[t].error # None)
            => /\ tasks[t].pc = "done"
               /\ C20_Classified(tasks[t].error[1], tasks[t].body, tasks[t].status)

\* An error that passes the quota test and the rate-limit test was reported
\* as quota_exceeded.
C20_Witness ==
    \E t \in Tasks :
        /\ tasks[t].kind = "chat" /\ tasks[t].pc = "done" /\ tasks[t].error # None
        /\ "RESOURCE_EXHAUSTED" \in tasks[t].error[1].message
        /\ tasks[t].error[1].status = 429
        /\ tasks[t].body = "quota_exceeded"

-----------------------------------------------------------------------------
(* Streaming on the page: claims checked under SpecStream *)

IsPrefix(a, b) == Len(a) <= Len(b) /\ SubSeq(b, 1, Len(a)) = a

\* C19: the text of an answer is never shortened and is at every moment a
\* prefix of the tokens read from the stream; after stopStreaming no further
\* token is read; and once the handler has ended after a stop and the buffer
\* is empty, the typewriter interval does not fire and stay alive.
C19_Transcript(t) ==
    /\ IsPrefix(tasks[t].displayedContent, tasks'[t].displayedContent)
    /\ IsPrefix(tasks'[t].displayedContent, tasks'[t].consumed)

C19_NoFurtherTokens(t) ==
    tasks[t].isCancelled =>
        /\ tasks'[t].consumed = tasks[t].consumed
        /\ tasks'[t].upstream = tasks[t].upstream

C19_Released(t) ==
    (/\ tasks[t].isCancelled /\ tasks[t].pc = "done" /\ tasks[t].buffer = <<>>
     /\ tasks'[t].ticks # tasks[t].ticks)
    => ~tasks'[t].typeWriter

C19_Cancellation ==
    [][\A t \in Tasks :
          tasks[t].kind = "send" =>
              C19_Transcript(t) /\ C19_NoFurtherTokens(t) /\ C19_Released(t)]_vars

-----------------------------------------------------------------------------
(* Retrieval from a ranked collection: claims checked under SpecShared and
   SpecRetrieve *)

Range(seq) == { seq[i] : i \in 1..Len(seq) }

\* The chunks of a tenant in a collection
TenantChunks(points, sessionId) == { p \in points : TenantOf(p) = sessionId }

\* The k best matches among the chunks of a tenant
BestOf(points, sessionId, k) ==
    { p \in TenantChunks(points, sessionId) :
        Cardinality({ q \in TenantChunks(points, sessionId) : q.id < p.id }) < k }

\* C21: for a question without a target source, the retrieval result holds
\* only chunks whose tenant_id is the session of the question, and it holds
\* every chunk of that session that ranks among the session's 4 best matches,
\* however many chunks of other tenants the collection holds.
C21_OnlyOwn(t) ==
    \A p \in Range(tasks[t].sessionResults) : TenantOf(p) = tasks[t].sessionId

C21_OwnBestReturned(t) ==
    BestOf(index, tasks[t].sessionId, TopK) \subseteq Range(tasks[t].sessionResults)

C21_Discoverability ==
    \A t \in Tasks :
        (tasks[t].kind = "chat" /\ tasks[t].pc = "streaming" /\ tasks[t].targetSource = "")
            => C21_OnlyOwn(t) /\ C21_OwnBestReturned(t)

\* The candidate list of a question in SpecRetrieve: what the search returned
Candidates == Slice(Ranked(index), SearchLimit)

\* The place of a point in a list of distinct points
Pos(seq, p) == CHOOSE i \in 1..Len(seq) : seq[i] = p

\* A candidate passes the filter of a question
Passes(p, t) ==
    /\ TenantOf(p) = tasks[t].sessionId
    /\ (tasks[t].targetSource = "" \/ SourceOf(p) = tasks[t].targetSource)

Passing(t) == { p \in Range(Candidates) : Passes(p, t) }

Retrieved(t) == tasks[t].kind = "chat" /\ tasks[t].pc = "streaming"

\* C22: the retrieval result is a subsequence of the candidate list (the
\* candidates' order, no candidate twice), its length is the smaller of 4 and
\* the number of candidates that pass the filter, and no passing candidate
\* that was left out ranks before one that was taken.
C22_Subsequence(res) ==
    /\ Range(res) \subseteq Range(Candidates)
    /\ \A i, j \in 1..Len(res) : i < j => Pos(Candidates, res[i]) < Pos(Candidates, res[j])

C22_FirstK ==
    \A t \in Tasks :
        Retrieved(t) =>
            LET res == tasks[t].sessionResults
            IN /\ C22_Subsequence(res)
               /\ Len(res) = (IF Cardinality(Passing(t)) < 4 THEN Cardinality(Passing(t)) ELSE 4)
               /\ \A p \in Range(res), q \in Passing(t) \ Range(res) :
                      Pos(Candidates, p) < Pos(Candidates, q)

\* Five candidates pass, a candidate that does not pass ranks among them, and
\* four were taken.
C22_Witness ==
    \E t \in Tasks :
        /\ Retrieved(t)
        /\ Cardinality(Passing(t)) = 5
        /\ Len(tasks[t].sessionResults) = 4
        /\ ~Passes(Candidates[2], t)

\* C23: for a question with a target source every chunk of the retrieval
\* result has the session's tenant_id and the target source as its source; for
\* a question without one the result is made of the session's best matches
\* whatever their source.
C23_TargetSource ==
    \A t \in Tasks :
        Retrieved(t) =>
            /\ \A p \in Range(tasks[t].sessionResults) :
                   /\ TenantOf(p) = tasks[t].sessionId
                   /\ tasks[t].targetSource # "" => SourceOf(p) = tasks[t].targetSource
            /\ tasks[t].targetSource = ""
                   => Range(tasks[t].sessionResults)
                          = BestOf(Range(Candidates), tasks[t].sessionId, TopK)

\* A question with a target source got a chunk, and the best match of its
\* session, which is of another source, was left out.
C23_Witness ==
    \E t \in Tasks :
        /\ Retrieved(t)
        /\ tasks[t].targetSource # ""
        /\ Len(tasks[t].sessionResults) > 0
        /\ TenantOf(Candidates[1]) = tasks[t].sessionId
        /\ SourceOf(Candidates[1]) # tasks[t].targetSource
        /\ Candidates[1] \notin Range(tasks[t].sessionResults)

-----------------------------------------------------------------------------
(* A question from the page to its end: claims checked under SpecPage *)

\* The places of the chat handler and the steps between them: Received
\* ("get", "set"), QuotaChecked ("decr", "expire"), Retrieving ("retrieve"),
\* Streaming ("streaming") and the end ("done")
ChatOrder ==
    {<<"idle", "get">>, <<"idle", "done">>, <<"get", "set">>, <<"get", "decr">>,
     <<"get", "done">>, <<"set", "decr">>, <<"decr", "expire">>,
     <<"expire", "retrieve">>, <<"expire", "done">>, <<"retrieve", "streaming">>,
     <<"retrieve", "done">>, <<"streaming", "done">>}

UpstreamCalls == {"embedQuery", "search", "streamText"}

Outcomes == {"completed", "aborted", "failed"}

\* C24: a question goes through Received, QuotaChecked, Retrieving, Streaming
\* and an end in this order: it calls the embedding, the search or the model
\* only after its quota check and decrement, the model only after the
\* retrieval, a question that found a counter at or below zero ends without
\* retrieval or generation, and a question that streams ends, on the server
\* and on the page, the page recording exactly one of completed, aborted and
\* failed.
C24_QuotaFirst(t) ==
    (tasks[t].calls \cap UpstreamCalls # {} \/ tasks[t].pc \in {"retrieve", "streaming"})
        => /\ {"redis.get", "redis.decr"} \subseteq tasks[t].calls
           /\ tasks[t].tokens # None /\ tasks[t].tokens[1] > 0
           /\ tasks[t].remainingTokens # None

C24_RetrievalFirst(t) ==
    "streamText" \in tasks[t].calls => {"embedQuery", "search"} \subseteq tasks[t].calls

C24_RejectedEnds(t) ==
    (tasks[t].tokens # None /\ tasks[t].tokens[1] <= 0)
        => /\ tasks[t].pc = "done"
           /\ tasks[t].calls \cap ({"redis.decr"} \cup UpstreamCalls) = {}

C24_InOrder(t) ==
    /\ (tasks[t].kind \in {"none", "chat"} /\ tasks'[t].kind = "chat"
        /\ tasks'[t].pc # tasks[t].pc)
           => <<tasks[t].pc, tasks'[t].pc>> \in ChatOrder
    /\ (tasks[t].kind = "send" /\ tasks[t].outcome # "")
           => tasks'[t].outcome = tasks[t].outcome /\ tasks'[t].pc = "done"
    /\ (tasks[t].kind = "send" /\ tasks[t].pc = "done") => tasks[t].outcome \in Outcomes

C24_Streaming(t) ==
    \/ tasks[t].kind = "chat" /\ tasks[t].pc = "streaming"
    \/ tasks[t].kind = "send" /\ tasks[t].pc = "read"

C24_Ended(t) ==
    \/ tasks[t].kind = "chat" /\ tasks[t].pc = "done"
    \/ tasks[t].kind = "send" /\ tasks[t].pc = "done" /\ tasks[t].outcome \in Outcomes

C24_QuestionStateMachine ==
    /\ [](\A t \in Tasks :
            tasks[t].kind = "chat"
                => C24_QuotaFirst(t) /\ C24_RetrievalFirst(t) /\ C24_RejectedEnds(t))
    /\ [][\A t \in Tasks : C24_InOrder(t)]_vars
    /\ \A t \in Tasks : C24_Streaming(t) ~> C24_Ended(t)

\* A message of the page was stopped while its answer streamed, its request
\* went through the gate, the retrieval and the model, and both have ended;
\* another question of the session was turned away at the gate.
C24_Witness ==
    \E t, u \in Tasks :
        /\ t < MaxTasks
        /\ tasks[t].kind = "send" /\ tasks[t].pc = "done" /\ tasks[t].outcome = "aborted"
        /\ tasks[t].consumed # <<>>
        /\ tasks[Request(t)].kind = "chat" /\ tasks[Request(t)].pc = "done"
        /\ "streamText" \in tasks[Request(t)].calls
        /\ tasks[u].kind = "chat" /\ tasks[u].status = 429 /\ tasks[u].body = "tokens: 0"

\* The response to the request of a message arrives at the page
Answered(t) ==
    /\ tasks[t].kind = "send" /\ tasks[t].pc = "fetch"
    /\ tasks'[t].pc # "fetch" /\ tasks'[t].outcome # "aborted"

\* The stored counter of the session of a request
CounterOf(request) == redisTokens[request.sessionId]

\* C30: when the page sets the count it shows to 0 on a response with status
\* 429, the stored counter of the session is at or below zero; and after a
\* response with the x-remaining-tokens header the count shown is the value
\* the decrement of that request returned.
C30_ZeroOn429(t) ==
    (Answered(t) /\ tasks[Request(t)].status = 429)
        => /\ tasks'[t].tokens = 0
           /\ CounterOf(tasks[Request(t)]).exists
           /\ CounterOf(tasks[Request(t)]).value <= 0

C30_HeaderShown(t) ==
    (Answered(t) /\ tasks[Request(t)].body = "x-remaining-tokens")
        => tasks'[t].tokens = tasks[Request(t)].remainingTokens[1]

C30_DisplayedFollowsServer ==
    [][\A t \in Tasks : t < MaxTasks => C30_ZeroOn429(t) /\ C30_HeaderShown(t)]_vars

-----------------------------------------------------------------------------
(* The expiry of the session keys: claims checked under SpecExpiry *)

\* C25: in every state an existing counter key and an existing source list
\* have a time-to-live, and every step that writes a key (initialise,
\* decrement, append) leaves it with a time-to-live of 24 hours.
C25_HasExpiry ==
    \A s \in Sessions :
        /\ redisTokens[s].exists => redisTokens[s].ttl > 0
        /\ redisFiles[s].list # <<>> => redisFiles[s].ttl > 0

C25_WriteSetsExpiry ==
    \A s \in Sessions :
        /\ (redisTokens'[s].exists /\ redisTokens'[s].value # redisTokens[s].value)
               => redisTokens'[s].ttl = SESSION_TTL
        /\ Len(redisFiles'[s].list) > Len(redisFiles[s].list)
               => redisFiles'[s].ttl = SESSION_TTL

C25_KeysExpire == [](C25_HasExpiry) /\ [][C25_WriteSetsExpiry]_vars

-----------------------------------------------------------------------------
(* The source list against the index: claims checked under Spec *)

\* C28: when no request is in progress, every entry of a session's source
\* list has at least one chunk in the index with the entry's name as its
\* source and the session as its tenant.
C28_ListedSourcesHaveChunks ==
    NoneInFlight =>
        \A s \in Sessions : \A i \in 1..Len(redisFiles[s].list) :
            PairChunks(index, s, redisFiles[s].list[i].name) # {}

-----------------------------------------------------------------------------
(* What an upload stores: claims checked under SpecUpload *)

\* The points a request upserted
UpsertedBy(t) == { p \in index : p.id \in tasks[t].upserted }

\* The units of a request that came out of its file
FileUnits(t) == { i \in 1..Len(tasks[t].docs) : tasks[t].docs[i].source = tasks[t].file }

\* The upsert of an ingest request
Upserts(t) ==
    tasks[t].kind = "ingest" /\ tasks[t].pc = "upsert" /\ tasks'[t].pc = "rpush"

\* C26: every chunk an ingest under session S upserts carries tenant_id S and
\* the source, page and totalPages of a unit of the request that has text; the
\* units of an n-page PDF are numbered 1 to n with totalPages n; every unit
\* carries the tenant before the splitter runs; and the tenant of a stored
\* chunk stays the session that ingested it.
C26_ChunkOfUnit(p, t) ==
    /\ p.metadata.tenant_id = tasks[t].sessionId
    /\ \E i \in 1..Len(tasks[t].docs) :
          /\ ~tasks[t].docs[i].blank
          /\ p.metadata.source = tasks[t].docs[i].source
          /\ p.metadata.page = tasks[t].docs[i].page
          /\ p.metadata.totalPages = tasks[t].docs[i].totalPages

C26_PdfUnits(t) ==
    Extension(tasks[t].file) = "pdf" =>
        \A i \in FileUnits(t) :
            /\ i <= Cardinality(FileUnits(t))
            /\ tasks[t].docs[i].page = i
            /\ tasks[t].docs[i].totalPages = Cardinality(FileUnits(t))

C26_TaggedBeforeChunking(t) ==
    \A i \in 1..Len(tasks[t].docs) : tasks[t].docs[i].tenant_id = tasks[t].sessionId

C26_MetadataPropagation ==
    /\ [][\A t \in Tasks :
              Upserts(t) =>
                  /\ C26_TaggedBeforeChunking(t)
                  /\ C26_PdfUnits(t)
                  /\ \A p \in index' \ index : C26_ChunkOfUnit(p, t)]_vars
    /\ [](\A p \in index : p.metadata.tenant_id = p.ingestedBy)

\* A PDF of two pages with text was ingested under s1 together with raw text,
\* and the index holds a chunk of page 1 and one of page 2.
C26_Witness ==
    \E t \in Tasks :
        /\ tasks[t].kind = "ingest" /\ tasks[t].pc = "done" /\ tasks[t].status = 200
        /\ tasks[t].sessionId = "s1" /\ tasks[t].file = "a.pdf" /\ tasks[t].text # ""
        /\ \E p, q \in UpsertedBy(t) :
              /\ p.metadata.page = 1 /\ q.metadata.page = 2
              /\ p.metadata.totalPages = 2 /\ q.metadata.source = "a.pdf"
              /\ p.metadata.tenant_id = "s1"

\* An ingest request that answered success and appended its SourceMetadata
Ingested(t) ==
    /\ tasks[t].kind = "ingest" /\ tasks[t].pc = "done" /\ tasks[t].status = 200
    /\ "redis.rpush" \in tasks[t].calls

\* The name of the SourceMetadata of a request
AppendedName(t) == SourceName(tasks[t].file, tasks[t].url, tasks[t].text)

\* The text extracted from the input of a request is empty
NoTextExtracted(t) ==
    \/ tasks[t].body = "Empty text file"
    \/ tasks[t].docs # <<>> /\ \A i \in 1..Len(tasks[t].docs) : tasks[t].docs[i].blank

\* C27: an ingest that answers success and appends a SourceMetadata has
\* upserted at least one chunk of that source; an ingest whose input yields
\* no text ends in an error and appends nothing.
C27_NeverZeroChunks ==
    \A t \in Tasks :
        /\ Ingested(t) => \E p \in UpsertedBy(t) : SourceOf(p) = AppendedName(t)
        /\ (tasks[t].kind = "ingest" /\ tasks[t].pc = "done" /\ NoTextExtracted(t))
               => tasks[t].status # 200 /\ "redis.rpush" \notin tasks[t].calls

\* C29: all chunks a successful ingest upserted carry the name of the
\* SourceMetadata the request appended, whichever of file, url and text its
\* body holds.
C29_OneSourcePerIngest ==
    \A t \in Tasks :
        Ingested(t) => \A p \in UpsertedBy(t) : SourceOf(p) = AppendedName(t)

====
